---- MODULE Spec2Model ----
(***************************************************************************)
(* A model of kinpy/sdf.py: the construction of a kinematic chain (a tree  *)
(* of frames) from the links and joints of an SDF model.                   *)
(*                                                                         *)
(* build_chain_from_sdf is modelled step by step: the pairwise scan that   *)
(* fills has_root, the loop that picks the root link, the construction of  *)
(* the root frame, and the recursion of _build_chain_recurse, whose call   *)
(* stack is the variable stack and whose Frame objects live in the heap    *)
(* frames.  Python exceptions end the build with the variable error set.   *)
(*                                                                         *)
(* Transforms are elements of the finite group of the affine maps          *)
(* x |-> rot*x + pos over the integers modulo 5 (rot in 1..4, pos in 0..4),*)
(* which composes and inverts the way rigid transforms do and is not       *)
(* commutative.                                                            *)
(***************************************************************************)
EXTENDS Integers, Sequences, FiniteSets, TLC

(***************************************************************************)
(* Bounds of the model.                                                    *)
(***************************************************************************)
\* joints of a joint list under Spec and LiveSpec
MaxJoints == 3
\* joints of a joint list under SpecErr (links missing, unknown type tags)
MaxErrJoints == 2
\* joints of a joint list under SpecPose (link poses vary)
MaxPoseJoints == 2
\* visuals of a link under SpecVis
MaxVisuals == 2
\* depth of the call stack of _build_chain_recurse the model follows; an
\* acyclic joint list of n joints needs n + 1 nested calls at most
MaxDepth == 5

(***************************************************************************)
(* Values.                                                                 *)
(***************************************************************************)
\* Python's None where a string may stand, where a pose may stand, where an
\* axis or a geometry parameter may stand
None == "None"

NoPose == <<>>

NoValue == <<>>

LinkNames == <<"A", "B", "C", "D">>

JointNames == <<"J1", "J2", "J3", "J4", "J5">>

(***************************************************************************)
(* transform.Transform: the group of the maps x |-> rot*x + pos modulo 5.  *)
(***************************************************************************)
Transform(rot, pos) == [rot |-> rot, pos |-> pos]

\* Transform() with its default arguments
TransformDefault == Transform(1, 0)

\* a * b: b expressed in a's frame, then a applied
TMul(a, b) == Transform((a.rot * b.rot) % 5, (a.rot * b.pos + a.pos) % 5)

TInverse(a) == LET r == CHOOSE x \in 1..4 : (x * a.rot) % 5 = 1 IN Transform(r, (5 - ((r * a.pos) % 5)) % 5)

\* np.deg2rad([90.0, 0.0, 0.0]) as a rotation: an element of order 4
Rot90X == 2

(***************************************************************************)
(* sdf.py                                                                  *)
(***************************************************************************)
\* fault variant: the table also knows the tag ball
JOINT_TYPE_MAP_Open == [t \in {"revolute", "prismatic", "fixed", "ball"} |-> t]

JOINT_TYPE_MAP == [t \in {"revolute", "prismatic", "fixed"} |-> t]

\* a pose is None or <<pos, rot>>: pose[:3] is the position, pose[3:] the rotation
_convert_transform(pose) == IF pose = NoPose THEN TransformDefault ELSE Transform(pose[2], pose[1])

\* frame.Visual(offset, geom_type, geom_param)
Visual(v_tf, g_type, g_param) == [offset |-> v_tf, geom_type |-> g_type, geom_param |-> g_param]

\* fault variant: the rotation of the cylinder composed on the left
VisualTransformLeft(v) == IF v.geometry.kind = "Cylinder" THEN TMul(Transform(Rot90X, 0), _convert_transform(v.pose)) ELSE _convert_transform(v.pose)

\* the transform given to the Visual of v: the body of the isinstance chain
VisualTransform(v) == IF v.geometry.kind = "Cylinder" THEN TMul(_convert_transform(v.pose), Transform(Rot90X, 0)) ELSE _convert_transform(v.pose)

\* one pass of the loop of _convert_visuals
ConvertVisual(v) == LET g == v.geometry IN CASE g.kind = "Mesh" -> Visual(VisualTransform(v), "mesh", <<g.filename>>) [] g.kind = "Cylinder" -> Visual(VisualTransform(v), "cylinder", <<g.radius, g.length>>) [] g.kind = "Box" -> Visual(VisualTransform(v), "box", g.size) [] g.kind = "Sphere" -> Visual(VisualTransform(v), "sphere", <<g.radius>>) [] OTHER -> Visual(VisualTransform(v), None, NoValue)

RECURSIVE VisualsLoop(_, _, _)
VisualsLoop(visuals, k, vlist) == IF k > Len(visuals) THEN vlist ELSE VisualsLoop(visuals, k + 1, Append(vlist, ConvertVisual(visuals[k])))

_convert_visuals(visuals) == VisualsLoop(visuals, 1, <<>>)

\* frame.Joint(name, offset, joint_type, axis), defaults as in frame.Joint()
Joint(name, offset, joint_type, axis) == [name |-> name, offset |-> offset, joint_type |-> joint_type, axis |-> axis]

\* frame.Link(name, offset, visuals)
Link(name, offset, visuals) == [name |-> name, offset |-> offset, visuals |-> visuals]

\* frame.Frame(name): a frame with a default joint, a default link, no children
Frame(name) == [name |-> name, joint |-> Joint(None, TransformDefault, "fixed", NoValue), link |-> Link(None, TransformDefault, <<>>), children |-> <<>>]

\* the exceptions that end a build; NoError while none has been raised
NoError == [type |-> None, key |-> None]

KeyError(key) == [type |-> "KeyError", key |-> key]

UnboundLocalError == [type |-> "UnboundLocalError", key |-> "root_link"]

VARIABLES joints, lmap, pc, i, j, has_root, root_link, frames, stack, chain, error

vars == <<joints, lmap, pc, i, j, has_root, root_link, frames, stack, chain, error>>

n_joints == Len(joints)

(***************************************************************************)
(* Inputs.  The code only compares link names, so a joint list is drawn up *)
(* to a renaming of its links: the links are named A, B, C, D in the order *)
(* in which the list first mentions them (parent before child).            *)
(***************************************************************************)
\* f[2k-1], f[2k] number the parent and the child of joint k
Canonical(f, n) == \A k \in 1..(2 * n) : IF k = 1 THEN f[k] = 1 ELSE \E m \in 1..(k - 1) : f[k] <= f[m] + 1

Topologies(n) == {f \in [1..(2 * n) -> 1..Len(LinkNames)] : Canonical(f, n)}

TypeCycle == <<"revolute", "prismatic", "fixed">>

JointRecord(k, type, parent, child) == [name |-> JointNames[k], type |-> type, parent |-> parent, child |-> child, axis |-> [xyz |-> <<1, 0, 0>>]]

JointList(f, n, types) == [k \in 1..n |-> JointRecord(k, types[k], LinkNames[f[2 * k - 1]], LinkNames[f[2 * k]])]

DefaultTypes(n) == [k \in 1..n |-> TypeCycle[((k - 1) % 3) + 1]]

\* the links a joint list names; a model with no joint still has its link A
UsedLinks(js) == {"A"} \cup {js[k].parent : k \in 1..Len(js)} \cup {js[k].child : k \in 1..Len(js)}

GeomMesh == [kind |-> "Mesh", filename |-> "part.dae"]

GeomCylinder == [kind |-> "Cylinder", radius |-> 1, length |-> 2]

GeomBox == [kind |-> "Box", size |-> <<1, 2, 3>>]

GeomSphere == [kind |-> "Sphere", radius |-> 3]

\* a geometry of the SDF that is none of Mesh, Cylinder, Box, Sphere
GeomPlane == [kind |-> "Plane", size |-> <<1, 1>>]

VisualRecord(pose, geometry) == [pose |-> pose, geometry |-> geometry]

\* the pose and the visuals a link has when a specification does not vary them
DefaultPose(l) == CASE l = "A" -> NoPose [] l = "B" -> <<1, 2>> [] l = "C" -> <<1, 4>> [] OTHER -> <<3, 3>>

DefaultVisuals(l) == CASE l = "A" -> <<VisualRecord(NoPose, GeomPlane)>> [] l = "B" -> <<VisualRecord(<<1, 2>>, GeomCylinder), VisualRecord(NoPose, GeomBox)>> [] l = "C" -> <<>> [] OTHER -> <<VisualRecord(<<2, 1>>, GeomPlane), VisualRecord(<<0, 3>>, GeomMesh)>>

LinkRecord(l, pose, visuals) == [name |-> l, pose |-> pose, visuals |-> visuals]

\* the value of root_link while the name is unbound
Unbound == LinkRecord(None, NoPose, <<>>)

\* the value of chain while no Chain has been returned
NoChain == [root |-> 0]

PoseChoices == {NoPose, <<1, 2>>, <<1, 4>>}

TypeChoices == {"revolute", "fixed", "ball"}

VisualChoices == {VisualRecord(p, g) : p \in {NoPose, <<1, 3>>}, g \in {GeomMesh, GeomCylinder, GeomBox, GeomSphere, GeomPlane}}

VisualLists == UNION {[1..m -> VisualChoices] : m \in 0..MaxVisuals}

\* the state build_chain_from_sdf starts in, given robot.joints and robot.link_map
Start(js, lm) == /\ joints = js
                 /\ lmap = lm
                 /\ pc = "scan"
                 /\ i = 1
                 /\ j = 2
                 /\ has_root = [k \in 1..Len(js) |-> TRUE]
                 /\ root_link = Unbound
                 /\ frames = <<>>
                 /\ stack = <<>>
                 /\ chain = NoChain
                 /\ error = NoError

\* every joint list of at most MaxJoints joints; all links present, all types known
Init == \E n \in 0..MaxJoints : \E f \in Topologies(n) : LET js == JointList(f, n, DefaultTypes(n)) IN Start(js, [l \in UsedLinks(js) |-> LinkRecord(l, DefaultPose(l), DefaultVisuals(l))])

\* joint lists with any type tags, and a link map that lacks at most one link
InitErr == \E n \in 0..MaxErrJoints : \E f \in Topologies(n) : \E types \in [1..n -> TypeChoices] : LET js == JointList(f, n, types) IN \E missing \in {{}} \cup {{l} : l \in UsedLinks(js)} : Start(js, [l \in UsedLinks(js) \ missing |-> LinkRecord(l, DefaultPose(l), DefaultVisuals(l))])

\* joint lists whose links have any poses
InitPose == \E n \in 0..MaxPoseJoints : \E f \in Topologies(n) : LET js == JointList(f, n, DefaultTypes(n)) IN \E poses \in [UsedLinks(js) -> PoseChoices] : Start(js, [l \in UsedLinks(js) |-> LinkRecord(l, poses[l], DefaultVisuals(l))])

\* the joint lists of at most two joints, whose links all carry one list of
\* visuals, any list of at most MaxVisuals visuals
InitVis == \E n \in {0, 1, 2} : \E f \in Topologies(n) : LET js == JointList(f, n, DefaultTypes(n)) IN \E vs \in VisualLists : Start(js, [l \in UsedLinks(js) |-> LinkRecord(l, DefaultPose(l), vs)])

(***************************************************************************)
(* build_chain_from_sdf, lines 80-87: the pairwise scan.                   *)
(***************************************************************************)
\* fault variant: the elif branch of the inner loop is missing
MarkPairFirstOnly(hr, a, b) == IF joints[a].parent = joints[b].child THEN [hr EXCEPT ![a] = FALSE] ELSE hr

\* fault variant: the inner loop marks nothing
MarkPairNever(hr, a, b) == hr

\* the body of the inner loop for the pair (a, b), a < b
MarkPair(hr, a, b) == IF joints[a].parent = joints[b].child THEN [hr EXCEPT ![a] = FALSE] ELSE IF joints[b].parent = joints[a].child THEN [hr EXCEPT ![b] = FALSE] ELSE hr

ScanPair == /\ pc = "scan"
            /\ i <= n_joints
            /\ j <= n_joints
            /\ has_root' = MarkPair(has_root, i, j)
            /\ j' = j + 1
            /\ UNCHANGED <<joints, lmap, pc, i, root_link, frames, stack, chain, error>>

ScanNextRow == /\ pc = "scan"
               /\ i <= n_joints
               /\ j > n_joints
               /\ i' = i + 1
               /\ j' = i + 2
               /\ UNCHANGED <<joints, lmap, pc, has_root, root_link, frames, stack, chain, error>>

ScanExit == /\ pc = "scan"
            /\ i > n_joints
            /\ pc' = "select"
            /\ i' = 1
            /\ UNCHANGED <<joints, lmap, j, has_root, root_link, frames, stack, chain, error>>

(***************************************************************************)
(* Lines 88-91: the first joint still marked gives the root link.          *)
(***************************************************************************)
SelectSkip == /\ pc = "select"
              /\ i <= n_joints
              /\ ~has_root[i]
              /\ i' = i + 1
              /\ UNCHANGED <<joints, lmap, pc, j, has_root, root_link, frames, stack, chain, error>>

SelectRoot == /\ pc = "select"
              /\ i <= n_joints
              /\ has_root[i]
              /\ IF joints[i].parent \in DOMAIN lmap
                 THEN /\ root_link' = lmap[joints[i].parent]
                      /\ pc' = "root"
                      /\ error' = error
                 ELSE /\ error' = KeyError(joints[i].parent)
                      /\ pc' = "done"
                      /\ root_link' = root_link
              /\ UNCHANGED <<joints, lmap, i, j, has_root, frames, stack, chain>>

SelectExit == /\ pc = "select"
              /\ i > n_joints
              /\ pc' = "root"
              /\ UNCHANGED <<joints, lmap, i, j, has_root, root_link, frames, stack, chain, error>>

(***************************************************************************)
(* Lines 92-95: the root frame, and the call of _build_chain_recurse on    *)
(* it.  root_link is unbound when the loop above ended without a break.    *)
(***************************************************************************)
RootFrame(link) == [Frame(link.name \o "_frame") EXCEPT !.joint = Joint(None, _convert_transform(link.pose), "fixed", NoValue), !.link = Link(link.name, TransformDefault, _convert_visuals(link.visuals))]

\* the activation record of a call _build_chain_recurse(root_frame, lmap, joints)
Call(root_frame) == [root_frame |-> root_frame, k |-> 1, children |-> <<>>]

BuildRoot == /\ pc = "root"
             /\ IF root_link = Unbound
                THEN /\ error' = UnboundLocalError
                     /\ pc' = "done"
                     /\ UNCHANGED <<frames, stack>>
                ELSE /\ frames' = <<RootFrame(root_link)>>
                     /\ stack' = <<Call(1)>>
                     /\ pc' = "recurse"
                     /\ error' = error
             /\ UNCHANGED <<joints, lmap, i, j, has_root, root_link, chain>>

(***************************************************************************)
(* _build_chain_recurse, lines 42-59.  The top of stack is the running     *)
(* call; k is its position in the loop over joints.                        *)
(***************************************************************************)
Top == stack[Len(stack)]

\* fault variant: the joint's child is compared, not its parent
MatchesChild(jt, frame) == jt.child = frame.link.name

\* line 45
Matches(jt, frame) == jt.parent = frame.link.name

\* fault variant: the factors in the other order, t_c * t_p.inverse()
JointOffsetSwapped(t_p, t_c) == TMul(t_c, TInverse(t_p))

\* line 52: offset = t_p.inverse() * t_c
JointOffset(t_p, t_c) == TMul(TInverse(t_p), t_c)

\* line 47: link_p = lmap[j.parent]
LinkP(jt) == lmap[jt.parent]

\* fault variant: link_c looked up under the parent's name
LinkCFromParent(jt) == lmap[jt.parent]

\* line 48: link_c = lmap[j.child]
LinkC(jt) == lmap[jt.child]

\* lines 46-56, once the three lookups have succeeded
ChildFrame(jt) == [Frame(jt.child \o "_frame") EXCEPT !.joint = Joint(jt.name, JointOffset(_convert_transform(LinkP(jt).pose), _convert_transform(LinkC(jt).pose)), JOINT_TYPE_MAP[jt.type], jt.axis.xyz), !.link = Link(LinkC(jt).name, TransformDefault, _convert_visuals(LinkC(jt).visuals))]

\* the first lookup of lines 47-52 that fails, None when none does
FailedLookup(jt) == IF jt.parent \notin DOMAIN lmap THEN jt.parent ELSE IF jt.child \notin DOMAIN lmap THEN jt.child ELSE IF jt.type \notin DOMAIN JOINT_TYPE_MAP THEN jt.type ELSE None

\* fault variant: the KeyError is swallowed and the loop goes on to the next joint
SkipJoint(jt) == /\ frames' = Append(frames, Frame(jt.child \o "_frame"))
                 /\ error' = error
                 /\ stack' = [stack EXCEPT ![Len(stack)].k = @ + 1]
                 /\ pc' = pc

\* a lookup of lines 47-52 fails after line 46 has made the frame: the
\* KeyError leaves every running call, and build_chain_from_sdf with it
RaiseKeyError(jt) == /\ frames' = Append(frames, Frame(jt.child \o "_frame"))
                     /\ error' = KeyError(FailedLookup(jt))
                     /\ stack' = <<>>
                     /\ pc' = "done"

\* fault variants: the child put in front of the list; the child appended twice
PrependChild(children, child_frame) == <<child_frame>> \o children

AppendChildTwice(children, child_frame) == Append(Append(children, child_frame), child_frame)

\* line 58, in the caller, once the call of line 57 has returned
AppendChild(children, child_frame) == Append(children, child_frame)

RecurseSkip == /\ pc = "recurse"
               /\ Top.k <= n_joints
               /\ ~Matches(joints[Top.k], frames[Top.root_frame])
               /\ stack' = [stack EXCEPT ![Len(stack)].k = @ + 1]
               /\ UNCHANGED <<joints, lmap, pc, i, j, has_root, root_link, frames, chain, error>>

\* a matching joint: the child frame is made, then line 57 calls the function
\* again on it.  A lookup that fails raises out of every running call.
RecurseExpand == /\ pc = "recurse"
                 /\ Top.k <= n_joints
                 /\ Matches(joints[Top.k], frames[Top.root_frame])
                 /\ LET jt == joints[Top.k]
                    IN IF FailedLookup(jt) # None
                       THEN RaiseKeyError(jt)
                       ELSE /\ frames' = Append(frames, ChildFrame(jt))
                            /\ error' = error
                            /\ IF Len(stack) < MaxDepth
                               THEN /\ stack' = Append(stack, Call(Len(frames) + 1))
                                    /\ pc' = pc
                               ELSE /\ stack' = stack
                                    /\ pc' = "overflow"
                 /\ UNCHANGED <<joints, lmap, i, j, has_root, root_link, chain>>

\* line 59: the loop has ended; the caller assigns the list to the frame's
\* children (line 57, or line 95 for the root, where line 96 makes the Chain)
RecurseReturn == /\ pc = "recurse"
                 /\ Top.k > n_joints
                 /\ frames' = [frames EXCEPT ![Top.root_frame].children = Top.children]
                 /\ IF Len(stack) = 1
                    THEN /\ chain' = [root |-> Top.root_frame]
                         /\ stack' = <<>>
                         /\ pc' = "done"
                    ELSE /\ chain' = chain
                         /\ stack' = [SubSeq(stack, 1, Len(stack) - 1) EXCEPT ![Len(stack) - 1].children = AppendChild(@, Top.root_frame), ![Len(stack) - 1].k = @ + 1]
                         /\ pc' = pc
                 /\ UNCHANGED <<joints, lmap, i, j, has_root, root_link, error>>

Next == \/ ScanPair
        \/ ScanNextRow
        \/ ScanExit
        \/ SelectSkip
        \/ SelectRoot
        \/ SelectExit
        \/ BuildRoot
        \/ RecurseSkip
        \/ RecurseExpand
        \/ RecurseReturn

Spec == Init /\ [][Next]_vars

SpecErr == InitErr /\ [][Next]_vars

SpecPose == InitPose /\ [][Next]_vars

SpecVis == InitVis /\ [][Next]_vars

\* the build is sequential code: a step that can be taken is taken
LiveSpec == Init /\ [][Next]_vars /\ WF_vars(Next)

(***************************************************************************)
(* The joint list as a graph, and the frame tree, for the properties.      *)
(***************************************************************************)
JointIdx == 1..n_joints

JointLinks == {joints[k].parent : k \in JointIdx} \cup {joints[k].child : k \in JointIdx}

IsChild(l) == \E k \in JointIdx : joints[k].child = l

\* the joints whose parent link is the child of no joint
NeverChild(k) == ~IsChild(joints[k].parent)

\* what the pairwise scan leaves marked: the parent of joint k is the child
\* of no later joint, and of no earlier joint but one that joint k reverses
Eligible(k) == /\ \A m \in JointIdx : m > k => joints[m].child # joints[k].parent
               /\ \A m \in JointIdx : (m < k /\ joints[m].child = joints[k].parent) => joints[m].parent = joints[k].child

First(S) == CHOOSE k \in S : \A m \in S : k <= m

RECURSIVE ReachFrom(_)
\* the links reached from the links of S along parent -> child
ReachFrom(S) == LET T == S \cup {joints[k].child : k \in {m \in JointIdx : joints[m].parent \in S}} IN IF T = S THEN S ELSE ReachFrom(T)

Acyclic == \A k \in JointIdx : joints[k].parent \notin ReachFrom({joints[k].child})

NoSelfLoop == \A k \in JointIdx : joints[k].parent # joints[k].child

NoReversedPair == \A k, m \in JointIdx : ~(joints[k].parent = joints[m].child /\ joints[m].parent = joints[k].child /\ k # m)

RootLinks == {l \in JointLinks : ~IsChild(l)}

AllLinksPresent == JointLinks \subseteq DOMAIN lmap

AllTypesKnown == \A k \in JointIdx : joints[k].type \in {"revolute", "prismatic", "fixed"}

\* a single-rooted tree: one link is never a child, every other link is the
\* child of exactly one joint, no cycle, every link present, every type known
ValidTree == /\ Cardinality(RootLinks) = 1
             /\ \A l \in JointLinks \ RootLinks : Cardinality({k \in JointIdx : joints[k].child = l}) = 1
             /\ Acyclic
             /\ AllLinksPresent
             /\ AllTypesKnown

Returned == pc = "done" /\ chain # NoChain

Failed == pc = "done" /\ error # NoError /\ chain = NoChain

RECURSIVE Preorder(_), PreorderAll(_)
\* the frames of the tree below and including frame id, by traversal
Preorder(id) == <<id>> \o PreorderAll(frames[id].children)

PreorderAll(ids) == IF ids = <<>> THEN <<>> ELSE Preorder(Head(ids)) \o PreorderAll(Tail(ids))

RECURSIVE Depth(_), MaxDepthOf(_)
Depth(id) == 1 + MaxDepthOf(frames[id].children)

MaxDepthOf(ids) == IF ids = <<>> THEN 0 ELSE LET d == Depth(Head(ids)) r == MaxDepthOf(Tail(ids)) IN IF d > r THEN d ELSE r

TreeFrames == {Preorder(chain.root)[m] : m \in 1..Len(Preorder(chain.root))}

ChildrenOf(id) == {frames[id].children[m] : m \in 1..Len(frames[id].children)}

\* the joints with parent link l, in list order
RECURSIVE JointsFrom(_, _)
JointsFrom(l, k) == IF k > n_joints THEN <<>> ELSE (IF joints[k].parent = l THEN <<k>> ELSE <<>>) \o JointsFrom(l, k + 1)

C1_OneRoot == \A l \in RootLinks : frames[chain.root].name = l \o "_frame" /\ frames[chain.root].link.name = l

C1_Count == Len(Preorder(chain.root)) - 1 = n_joints /\ Cardinality(TreeFrames) = n_joints + 1 /\ TreeFrames = 1..Len(frames)

(***************************************************************************)
(* C1.  For a joint list that is a valid single-rooted tree, the build     *)
(* returns a chain with exactly one root frame, named after the one link   *)
(* that is never a child, and the tree below it holds len(joints) frames.  *)
(***************************************************************************)
C1_TreeShape == (pc = "done" /\ ValidTree) => (Returned /\ error = NoError /\ C1_OneRoot /\ C1_Count /\ \A id \in 1..Len(frames) : chain.root \notin ChildrenOf(id))

C1_Witness == pc = "done" /\ ValidTree /\ n_joints = 3 /\ Returned /\ Depth(chain.root) = 3 /\ frames[chain.root].link.name = "C"

(***************************************************************************)
(* C2.  As claimed: whenever a root link is selected, it is the parent of  *)
(* the first joint whose parent is the child of no joint; a link that is   *)
(* the child of a joint is never selected.                                 *)
(***************************************************************************)
C2_Original == root_link # Unbound => ((\E k \in JointIdx : NeverChild(k)) /\ root_link.name = joints[First({k \in JointIdx : NeverChild(k)})].parent /\ ~IsChild(root_link.name))

(***************************************************************************)
(* C2, amended.  The selected root link is the parent of the first joint   *)
(* the scan leaves marked (Eligible); when no joint is its own parent and  *)
(* no two joints reverse each other, that is the first joint whose parent  *)
(* is the child of no joint, and a child link is never selected.           *)
(***************************************************************************)
C2_RootSelection == root_link # Unbound => ((\E k \in JointIdx : Eligible(k)) /\ root_link.name = joints[First({k \in JointIdx : Eligible(k)})].parent /\ ((NoSelfLoop /\ NoReversedPair) => C2_Original))

C2_Witness == root_link # Unbound /\ NoSelfLoop /\ NoReversedPair /\ n_joints = 3 /\ ~has_root[1] /\ ~has_root[2] /\ root_link.name = "D"

C3_Iff == \A x, y \in TreeFrames : x \in ChildrenOf(y) <=> \E k \in JointIdx : joints[k].parent = frames[y].link.name /\ joints[k].child = frames[x].link.name

\* the m-th child of frame y is the frame of the m-th joint out of y's link
C3_ChildOf(y, m, k) == LET c == frames[frames[y].children[m]] IN c.name = joints[k].child \o "_frame" /\ c.joint.name = joints[k].name /\ c.link.name = joints[k].child

C3_Ordered == \A y \in TreeFrames : LET js == JointsFrom(frames[y].link.name, 1) IN Len(frames[y].children) = Len(js) /\ \A m \in 1..Len(js) : C3_ChildOf(y, m, js[m])

C3_Scenario == (n_joints = 2 /\ joints[1].child = joints[2].parent) => (Depth(chain.root) = 3 /\ <<frames[1].name, frames[2].name, frames[3].name>> = <<"A_frame", "B_frame", "C_frame">> /\ frames[1].children = <<2>> /\ frames[2].children = <<3>> /\ frames[3].children = <<>>)

(***************************************************************************)
(* C3.  For a valid single-rooted tree, the frame of link X is a direct    *)
(* child of the frame of link Y exactly if a joint has parent Y and child  *)
(* X; the child frame is named X_frame, carries the joint's name and a     *)
(* link named X; children are in the order of their joints.  The joints    *)
(* A->B, B->C give Frame(A) -> Frame(B) -> Frame(C), of depth 3.           *)
(***************************************************************************)
C3_Children == (pc = "done" /\ ValidTree) => (Returned /\ C3_Iff /\ C3_Ordered /\ C3_Scenario)

C3_Witness == pc = "done" /\ ValidTree /\ Returned /\ n_joints = 3 /\ Len(frames[chain.root].children) = 2 /\ Depth(chain.root) = 3

(***************************************************************************)
(* C7.  With an empty joint list, or with every joint disqualified by the  *)
(* scan, the build fails: no root link is selected, no Frame is ever       *)
(* constructed, no chain is returned, and the build ends with an error.    *)
(***************************************************************************)
C7_NoRoot == (\A k \in JointIdx : ~Eligible(k)) => (frames = <<>> /\ root_link = Unbound /\ chain = NoChain /\ pc \in {"scan", "select", "root", "done"} /\ (pc = "done" => (Failed /\ error = UnboundLocalError /\ \A k \in JointIdx : ~has_root[k])))

C7_Witness == pc = "done" /\ n_joints = 3 /\ (\A k \in JointIdx : ~Eligible(k)) /\ Failed

OneFramePerLink == \A x, y \in TreeFrames : x # y => (frames[x].link.name # frames[y].link.name /\ frames[x].joint.name # frames[y].joint.name)

(***************************************************************************)
(* C10.  As claimed: in every build that returns a chain, no joint gives   *)
(* rise to more than one frame and no link name is on two frames.          *)
(***************************************************************************)
C10_Original == Returned => (OneFramePerLink /\ Len(Preorder(chain.root)) = Cardinality(TreeFrames))

AtMostOneParent == \A k, m \in JointIdx : (joints[k].child = joints[m].child) => k = m

(***************************************************************************)
(* C10, amended.  In every build that returns a chain from a joint list in *)
(* which no link is the child of two joints, no joint gives rise to more   *)
(* than one frame and no link name is on two frames.                       *)
(***************************************************************************)
C10_ExpandedOnce == (Returned /\ AtMostOneParent) => (OneFramePerLink /\ Len(Preorder(chain.root)) = Cardinality(TreeFrames))

C10_Witness == Returned /\ AtMostOneParent /\ n_joints = 3 /\ Depth(chain.root) = 4

DescendsToChild == \A d \in 2..Len(stack) : \E k \in JointIdx : joints[k].parent = frames[stack[d - 1].root_frame].link.name /\ joints[k].child = frames[stack[d].root_frame].link.name

(***************************************************************************)
(* C9.  For a joint list without a directed cycle the build ends, with a   *)
(* chain or with an error; and every nested call of _build_chain_recurse   *)
(* is on the frame of a link that is the child of a joint of the caller's  *)
(* link.                                                                   *)
(***************************************************************************)
C9_Terminates == (Acyclic => <>(pc = "done" /\ (Returned \/ Failed))) /\ [](pc = "recurse" => DescendsToChild)

C9_Witness == pc = "done" /\ Acyclic /\ ~AtMostOneParent /\ Returned /\ Len(frames) = 5 /\ Depth(chain.root) = 3

(***************************************************************************)
(* Under SpecErr: links missing from the link map, unknown type tags.      *)
(***************************************************************************)
RootName == joints[First({k \in JointIdx : Eligible(k)})].parent

RootFound == \E k \in JointIdx : Eligible(k)

\* the joints the recursion comes to: their parent is reached from the root
ReachedJoints == {k \in JointIdx : joints[k].parent \in ReachFrom({RootName})}

NamesMissingLink(k) == joints[k].parent \notin DOMAIN lmap \/ joints[k].child \notin DOMAIN lmap

UnknownType(k) == joints[k].type \notin {"revolute", "prismatic", "fixed"}

LookupFailure == Failed /\ error.type = "KeyError"

(***************************************************************************)
(* C6.  As claimed: when some joint names a link that is absent from the   *)
(* link map, the build fails with a lookup error and returns no chain.     *)
(***************************************************************************)
C6_Original == (pc = "done" /\ \E k \in JointIdx : NamesMissingLink(k)) => LookupFailure

C6_Reached == Acyclic /\ RootFound /\ (RootName \notin DOMAIN lmap \/ \E k \in ReachedJoints : NamesMissingLink(k))

C6_NoPartial == (Returned => (error = NoError /\ \A x \in TreeFrames : frames[x].link.name \in DOMAIN lmap)) /\ ((pc = "done" /\ error # NoError) => chain = NoChain)

(***************************************************************************)
(* C6, amended.  For a joint list without a directed cycle in which a root *)
(* link is selected: when the root link, or a link named by a joint whose  *)
(* parent is reached from the root link, is absent from the link map, the  *)
(* build fails with a lookup error and returns no chain.  A build that     *)
(* fails returns no chain, and a returned chain has a frame for no absent  *)
(* link.                                                                   *)
(***************************************************************************)
C6_MissingLink == ((pc = "done" /\ C6_Reached) => LookupFailure) /\ C6_NoPartial

C6_Witness == pc = "done" /\ C6_Reached /\ n_joints = 2 /\ AllTypesKnown /\ error = KeyError("C") /\ Len(frames) = 3

\* every failure is the missing root, a missing link or an unknown type tag
C8_GeometryNeverFails == ((pc = "done" /\ ValidTree) => Returned) /\ ((pc = "done" /\ error # NoError) => ((error = UnboundLocalError /\ ~RootFound) \/ (error.type = "KeyError" /\ \E k \in JointIdx : (NamesMissingLink(k) /\ error.key \in {joints[k].parent, joints[k].child} \ DOMAIN lmap) \/ (UnknownType(k) /\ error.key = joints[k].type))))

(***************************************************************************)
(* C8.  As claimed: when some joint carries a type tag outside revolute,   *)
(* prismatic, fixed, the build fails with a lookup error and returns no    *)
(* chain; an unrecognised geometry never makes the build fail.             *)
(***************************************************************************)
C8_Original == ((pc = "done" /\ \E k \in JointIdx : UnknownType(k)) => LookupFailure) /\ C8_GeometryNeverFails

(***************************************************************************)
(* C8, amended.  For a joint list without a directed cycle in which a root *)
(* link is selected: when a joint whose parent is reached from the root    *)
(* link carries a type tag outside revolute, prismatic, fixed, the build   *)
(* fails with a lookup error and returns no chain; an unrecognised         *)
(* geometry never makes the build fail.                                    *)
(***************************************************************************)
C8_UnknownType == ((pc = "done" /\ Acyclic /\ RootFound /\ \E k \in ReachedJoints : UnknownType(k)) => LookupFailure) /\ C8_GeometryNeverFails

HasUnknownGeometry(id) == \E m \in 1..Len(frames[id].link.visuals) : frames[id].link.visuals[m].geom_type = None

C8_Witness == pc = "done" /\ Acyclic /\ RootFound /\ AllLinksPresent /\ n_joints = 2 /\ UnknownType(2) /\ ~UnknownType(1) /\ error = KeyError("ball") /\ Len(frames) = 3 /\ HasUnknownGeometry(1)

\* a pose as a transform: its rotation part and its position part
PoseTransform(pose) == IF pose = NoPose THEN [rot |-> 1, pos |-> 0] ELSE [rot |-> pose[2], pos |-> pose[1]]

C4_ChildOffset(id) == \A k \in JointIdx : joints[k].name = frames[id].joint.name => TMul(PoseTransform(lmap[joints[k].parent].pose), frames[id].joint.offset) = PoseTransform(lmap[joints[k].child].pose)

(***************************************************************************)
(* C4.  Under SpecPose.  For every joint the recursion expands, with its   *)
(* parent link at pose P and its child link at pose C (a null pose being   *)
(* the identity), the offset O of the child frame's joint satisfies        *)
(* P * O = C; the offset of the root frame's joint is the root link's      *)
(* pose.                                                                   *)
(***************************************************************************)
C4_Offsets == \A id \in 1..Len(frames) : IF frames[id].joint.name = None THEN (id = 1 /\ frames[id].joint.offset = PoseTransform(lmap[frames[id].link.name].pose)) ELSE C4_ChildOffset(id)

C4_Witness == pc = "done" /\ Returned /\ n_joints = 2 /\ Depth(chain.root) = 3 /\ lmap["A"].pose = <<1, 2>> /\ lmap["B"].pose = <<1, 4>> /\ lmap["C"].pose = NoPose /\ frames[2].joint.offset # frames[3].joint.offset

GeomTag(kind) == CASE kind = "Mesh" -> "mesh" [] kind = "Cylinder" -> "cylinder" [] kind = "Box" -> "box" [] kind = "Sphere" -> "sphere" [] OTHER -> None

C5_Visual(v, out) == out.geom_type = GeomTag(v.geometry.kind) /\ out.offset = IF v.geometry.kind = "Cylinder" THEN TMul(PoseTransform(v.pose), [rot |-> 2, pos |-> 0]) ELSE PoseTransform(v.pose)

(***************************************************************************)
(* C5.  Under SpecVis.  The Visuals of a link are one per visual of the    *)
(* link, in order; the transform of each is the converted pose (the        *)
(* identity for a null pose), composed on the right with the 90 degree     *)
(* rotation about X exactly for a cylinder.                                *)
(***************************************************************************)
C5_Visuals == \A id \in 1..Len(frames) : frames[id].link.name # None => LET vs == lmap[frames[id].link.name].visuals out == frames[id].link.visuals IN Len(out) = Len(vs) /\ \A m \in 1..Len(vs) : C5_Visual(vs[m], out[m])

C5_Witness == pc = "done" /\ Returned /\ Len(frames) = 3 /\ Len(frames[3].link.visuals) = 2 /\ frames[3].link.visuals[1].geom_type = "cylinder" /\ frames[3].link.visuals[1].offset = [rot |-> 1, pos |-> 1] /\ frames[3].link.visuals[2].geom_type = None

====
